---- MODULE Spec2Model ----
(***************************************************************************)
(* mtp-filler: fill an MTP storage down to a desired amount of free space  *)
(* with one generated filler file.                                         *)
(*                                                                         *)
(* The model follows the three entry points of the source:                 *)
(*   backend = "unix"     src/src/unix.rs    run()  + src/src/shared.rs    *)
(*   backend = "windows"  src/src/windows.rs run()  + src/src/shared.rs    *)
(*   backend = "main"     src/src/main.rs    main() (monolithic variant)   *)
(* A run is a sequence of blocking steps; pc is the position in run().     *)
(* Every `?` of the source is a branch that ends the run with an error,    *)
(* every unwrap() a branch that ends it with a panic.                      *)
(***************************************************************************)
EXTENDS Integers, Sequences, FiniteSets, TLC

\* ---------------------------------------------------------------- bounds
\* largest free space of a storage, in 1024-byte chunks
MaxChunks == 10
\* number of successive runs of the program on the same working directory
MaxRuns == 2
\* number of devices the transport may enumerate
MaxDevices == 1
\* number of storage pools a device may list
MaxPools == 1

\* ------------------------------------------------------ program constants
\* const BUFFER_SIZE: usize = 1024;
BUFFER_SIZE == 1024
\* BufWriter::new(f): the standard library's default buffer capacity
BufWriterCapacity == 8192
\* PathBuf::from("./zzz_filler.txt"): the fixed file name of main.rs, as a token
zzz_filler == 0

\* Option::None of a value that is a byte count or a token otherwise
None == 0 - 1

Backends == {"unix", "windows", "main"}

\* tokens Uuid::new_v4() may return (file name "<token>_filler.txt")
Uuids == 1..(MaxRuns + 1)

\* free space a storage may report, in bytes
FreeValues == {k * BUFFER_SIZE + r : k \in {0, 1, 2, MaxChunks}, r \in {0, 1}}

\* byte counts a user may type
ByteValues == {k * BUFFER_SIZE + r : k \in 0..MaxChunks, r \in {0, 1, BUFFER_SIZE - 1}}

\* device-side allocation overhead of one pushed object, in bytes
Overheads == {0, 512}

\* texts the user may type at the "How much space should be left" prompt:
\* a number followed by a unit suffix ("" = digits only, "?" = no known unit)
Inputs ==
    [num : ByteValues, unit : {"", "B"}]
        \cup [num : 0..MaxChunks, unit : {"KB", "KiB"}]
        \cup [num : {10}, unit : {"MiB", "?"}]

\* ByteSize::from_str: the byte count of a text, None when it does not parse
ByteSize_from_str(input) ==
    CASE input.unit = "" -> input.num
      [] input.unit = "B" -> input.num
      [] input.unit = "KB" -> input.num * 1000
      [] input.unit = "KiB" -> input.num * 1024
      [] input.unit = "MiB" -> input.num * 1024 * 1024
      [] OTHER -> None

Min(a, b) == IF a < b THEN a ELSE b

VARIABLES
    backend,          \* which entry point was compiled
    run,              \* number of the current run
    pc,               \* position in run()
    result,           \* "running", "Ok", or how the run ended
    devices_len,      \* raw_devices.len() of the last enumeration, None before
    pools_len,        \* number of storage pools listed, None before
    devFree,          \* free bytes of the storage, on the device
    cache,            \* free bytes in the session's storage view (libmtp)
    free_space,       \* run(): let free_space = get_free_space(..)
    reprompted,       \* the input prompt was shown again after a rejected text
    devChanged,       \* the device's free space changed while the prompt waited
    input_bytes,      \* create_filler_file: input_bytes
    filler_file_size, \* create_filler_file: filler_file_size
    remaining_size,   \* create_filler_file: remaining_size
    to_write_log,     \* sizes of the chunks handed to writer.write, in order
    bufLen,           \* bytes held in the BufWriter
    fileLen,          \* length of the filler file on disk, None when none
    progress,         \* position of the "Creating filler file" progress bar
    filler_path,      \* path token of this run's filler file, None before
    disk,             \* path tokens of the files in the working directory
    clobbered,        \* File::create truncated a file that already existed
    generated,        \* create_filler_file returned Ok(filler_path)
    write_failed,     \* writer.write returned Err: the file system rejected a flush
    flush_lost,       \* the flush of the dropped BufWriter failed, unreported
    meta_size,        \* FileMetadata.file_size handed to the push, None before
    file_type,        \* FileMetadata.file_type handed to the push
    pushed,           \* bytes the push transferred, None before
    printed,          \* the figure of the success line, None when not printed
    trace             \* facade operations and prompts of this run, in order

vars ==
    <<backend, run, pc, result, devices_len, pools_len, devFree, cache, free_space,
      reprompted, devChanged, input_bytes, filler_file_size, remaining_size,
      to_write_log, bufLen, fileLen, progress, filler_path, disk, clobbered,
      generated, write_failed, flush_lost, meta_size, file_type, pushed, printed,
      trace>>

devVars == <<devices_len, pools_len>>
genVars ==
    <<input_bytes, filler_file_size, remaining_size, to_write_log, bufLen, fileLen,
      progress, filler_path, disk, clobbered, generated, write_failed, flush_lost>>
pushVars == <<meta_size, file_type, pushed>>

\* the state a process starts in
Fresh(b, r, d, free) ==
    /\ backend = b
    /\ run = r
    /\ pc = "select_device"
    /\ result = "running"
    /\ devices_len = None
    /\ pools_len = None
    /\ devFree = free
    /\ cache = None
    /\ free_space = None
    /\ reprompted = FALSE
    /\ devChanged = FALSE
    /\ input_bytes = None
    /\ filler_file_size = None
    /\ remaining_size = None
    /\ to_write_log = <<>>
    /\ bufLen = 0
    /\ fileLen = None
    /\ progress = 0
    /\ filler_path = None
    /\ disk = d
    /\ clobbered = FALSE
    /\ generated = FALSE
    /\ write_failed = FALSE
    /\ flush_lost = FALSE
    /\ meta_size = None
    /\ file_type = "none"
    /\ pushed = None
    /\ printed = None
    /\ trace = <<>>

Init ==
    \E b \in Backends, d \in {{}, {zzz_filler}}, free \in FreeValues :
        Fresh(b, 1, d, free)

\* an error sends the run back to its first step instead of ending it
Fail_retry(kind) ==
    /\ pc' = "select_device"
    /\ result' = result

\* every error drains into the Cleanup step instead of ending the run
Fail_to_cleanup(kind) ==
    /\ pc' = "cleanup"
    /\ result' = result

\* a `?` that returns Err(kind) from run(): the process exits non-zero
Fail(kind) ==
    /\ pc' = "done"
    /\ result' = kind

\* an unwrap()/expect() on an Err: the process panics
Panic == Fail("Panic")

IsUnix == backend \in {"unix", "main"}

\* ------------------------------------------------------------ select_device
\* raw_devices and the pool list are locals of select_device / select_storage:
\* devices_len and pools_len hold their length when the function returns an error
\* and are dropped (None) when it returns Ok.

\* unix.rs / main.rs select_device(): detect_raw_devices()?, Select..interact()?,
\* raw_devices.get(input)..open_uncached()?  -- no test for an empty list: the
\* Select is called with no items and returns an error itself.
select_device_unix(n, o) ==
    /\ IsUnix
    /\ IF o = "enum_err"
       THEN /\ trace' = trace \o <<"enumerate_devices">>
            /\ Fail("DeviceEnumerationError")
            /\ UNCHANGED <<devices_len, cache>>
       ELSE IF n = 0 \/ o = "prompt_err"
       THEN /\ trace' = trace \o <<"enumerate_devices", "select_device_prompt">>
            /\ Fail("UserInputError")
            /\ devices_len' = n
            /\ UNCHANGED cache
       ELSE IF o = "open_err"
       THEN /\ trace' = trace \o
                <<"enumerate_devices", "select_device_prompt", "open_device">>
            /\ Fail("DeviceOpenError")
            /\ devices_len' = n
            /\ UNCHANGED cache
       ELSE /\ trace' = trace \o
                <<"enumerate_devices", "select_device_prompt", "open_device">>
            /\ pc' = "select_storage"
            /\ cache' = devFree
            /\ UNCHANGED <<result, devices_len>>

\* windows.rs select_device(): Provider::new()?, enumerate_devices()?,
\* if raw_devices.len() < 1 { return Err("No attached MTP devices detected") },
\* Select..interact()?, open()?
select_device_windows(n, o) ==
    /\ backend = "windows"
    /\ UNCHANGED cache
    /\ IF o = "enum_err"
       THEN /\ trace' = trace \o <<"enumerate_devices">>
            /\ Fail("DeviceEnumerationError")
            /\ UNCHANGED devices_len
       ELSE IF n < 1
       THEN /\ trace' = trace \o <<"enumerate_devices">>
            /\ Fail("NoDeviceFound")
            /\ devices_len' = n
       ELSE IF o = "prompt_err"
       THEN /\ trace' = trace \o <<"enumerate_devices", "select_device_prompt">>
            /\ Fail("UserInputError")
            /\ devices_len' = n
       ELSE IF o = "open_err"
       THEN /\ trace' = trace \o
                <<"enumerate_devices", "select_device_prompt", "open_device">>
            /\ Fail("DeviceOpenError")
            /\ devices_len' = n
       ELSE /\ trace' = trace \o
                <<"enumerate_devices", "select_device_prompt", "open_device">>
            /\ pc' = "select_storage"
            /\ UNCHANGED <<result, devices_len>>

SelectDevice ==
    /\ pc = "select_device"
    /\ \E n \in 0..MaxDevices, o \in {"ok", "enum_err", "prompt_err", "open_err"} :
        \/ select_device_unix(n, o)
        \/ select_device_windows(n, o)
    /\ UNCHANGED <<backend, run, pools_len, devFree, free_space, reprompted, devChanged,
                   printed>>
    /\ UNCHANGED genVars
    /\ UNCHANGED pushVars

\* ----------------------------------------------------------- select_storage
\* unix.rs / main.rs select_storage(): device.storage_pool() (the session's view,
\* cannot fail), Select..interact()?, storage_pool_vec[input]
select_storage_unix(p, o) ==
    /\ IsUnix
    /\ trace' = trace \o <<"list_storage_pools", "select_storage_prompt">>
    /\ IF p = 0 \/ o = "prompt_err"
       THEN /\ Fail("UserInputError")
            /\ pools_len' = p
       ELSE /\ pc' = "free_space"
            /\ UNCHANGED <<result, pools_len>>

\* windows.rs select_storage(): content()?, root()?, children()?, then for each
\* child get_capacity(..).unwrap() and get_free_space(..).unwrap(), Select..interact()?
select_storage_windows(p, o) ==
    /\ backend = "windows"
    /\ IF o = "list_err"
       THEN /\ trace' = trace \o <<"list_storage_pools">>
            /\ Fail("StorageEnumerationError")
            /\ UNCHANGED pools_len
       ELSE IF p > 0 /\ o = "query_err"
       THEN /\ trace' = trace \o <<"list_storage_pools", "free_space">>
            /\ Panic
            /\ pools_len' = p
       ELSE /\ trace' = trace \o <<"list_storage_pools", "select_storage_prompt">>
            /\ IF p = 0 \/ o = "prompt_err"
               THEN /\ Fail("UserInputError")
                    /\ pools_len' = p
               ELSE /\ pc' = "free_space"
                    /\ UNCHANGED <<result, pools_len>>

SelectStorage ==
    /\ pc = "select_storage"
    /\ \E p \in 0..MaxPools, o \in {"ok", "list_err", "query_err", "prompt_err"} :
        \/ select_storage_unix(p, o)
        \/ select_storage_windows(p, o)
    /\ UNCHANGED <<backend, run, devices_len, devFree, cache, free_space, reprompted,
                   devChanged, printed>>
    /\ UNCHANGED genVars
    /\ UNCHANGED pushVars

\* ----------------------------------------------------------- get_free_space
\* unix.rs / main.rs get_free_space(): the storage's free_space_in_bytes() in the
\* session's storage view; windows.rs get_free_space(): a property query on the
\* device (get_bytes_from_property)
get_free_space == IF IsUnix THEN cache ELSE devFree

\* run(): let free_space = get_free_space(&device, storage_id)?;
GetFreeSpace ==
    /\ pc = "free_space"
    /\ trace' = trace \o <<"free_space">>
    /\ \/ /\ free_space' = get_free_space
          /\ pc' = "prompt"
          /\ UNCHANGED result
       \/ /\ Fail("StorageQueryError")
          /\ UNCHANGED free_space
    /\ UNCHANGED <<backend, run, devFree, cache, reprompted, devChanged, printed>>
    /\ UNCHANGED devVars
    /\ UNCHANGED genVars
    /\ UNCHANGED pushVars

\* the device's free space changes while the run waits for the user's text
DeviceChange ==
    /\ pc = "prompt"
    /\ ~devChanged
    /\ devChanged' = TRUE
    /\ \E d \in {devFree - BUFFER_SIZE, devFree + BUFFER_SIZE} :
        /\ d >= 0
        /\ devFree' = d
    /\ UNCHANGED <<backend, run, pc, result, cache, free_space, reprompted, printed,
                   trace>>
    /\ UNCHANGED devVars
    /\ UNCHANGED genVars
    /\ UNCHANGED pushVars

\* --------------------------------------------------------- create_filler_file
\* validate with `>` for `>=`: a text equal to the free space is accepted
validate_gt(input, current_free_bytes) ==
    LET input_size == ByteSize_from_str(input) IN
    IF input_size = None THEN "parse error"
    ELSE IF input_size > current_free_bytes
    THEN "Desired free bytes cannot be larger than current free space on device"
    ELSE IF input_size < BUFFER_SIZE
    THEN "Desired free bytes must be larger than 1024 bytes (1 KiB)"
    ELSE "ok"

\* validate with `<=` for `<` in the minimum test: 1024 itself is rejected
validate_le(input, current_free_bytes) ==
    LET input_size == ByteSize_from_str(input) IN
    IF input_size = None THEN "parse error"
    ELSE IF input_size >= current_free_bytes
    THEN "Desired free bytes cannot be larger than current free space on device"
    ELSE IF input_size <= BUFFER_SIZE
    THEN "Desired free bytes must be larger than 1024 bytes (1 KiB)"
    ELSE "ok"

\* validate without the minimum test
validate_nomin(input, current_free_bytes) ==
    LET input_size == ByteSize_from_str(input) IN
    IF input_size = None THEN "parse error"
    ELSE IF input_size >= current_free_bytes
    THEN "Desired free bytes cannot be larger than current free space on device"
    ELSE "ok"

\* validate with the minimum taken as 1000 bytes (1 KB) for 1024 (1 KiB)
validate_kb(input, current_free_bytes) ==
    LET input_size == ByteSize_from_str(input) IN
    IF input_size = None THEN "parse error"
    ELSE IF input_size >= current_free_bytes
    THEN "Desired free bytes cannot be larger than current free space on device"
    ELSE IF input_size < 1000
    THEN "Desired free bytes must be larger than 1024 bytes (1 KiB)"
    ELSE "ok"

\* the validate_with closure of the Input: "ok" or the message it rejects with
validate(input, current_free_bytes) ==
    LET input_size == ByteSize_from_str(input) IN
    IF input_size = None THEN "parse error"
    ELSE IF input_size >= current_free_bytes
    THEN "Desired free bytes cannot be larger than current free space on device"
    ELSE IF input_size < BUFFER_SIZE
    THEN "Desired free bytes must be larger than 1024 bytes (1 KiB)"
    ELSE "ok"

\* Input::new()..validate_with(..).interact_text()?: a rejected text shows the
\* message and asks again; an accepted one is returned; a terminal error is Err.
\* The trace holds "desired_prompt" once, or twice when the prompt was repeated.
Prompt ==
    /\ pc = "prompt"
    /\ \/ \E input \in Inputs :
            IF validate(input, free_space) = "ok"
            THEN /\ input_bytes' = ByteSize_from_str(input)
                 /\ pc' = "create"
                 /\ trace' = trace \o <<"desired_prompt">>
                 /\ UNCHANGED <<result, reprompted>>
            ELSE /\ reprompted' = TRUE
                 /\ trace' = IF reprompted THEN trace ELSE trace \o <<"desired_prompt">>
                 /\ UNCHANGED <<pc, result, input_bytes>>
       \/ /\ Fail("UserInputError")
          /\ trace' = trace \o <<"desired_prompt">>
          /\ UNCHANGED <<reprompted, input_bytes>>
    /\ UNCHANGED <<backend, run, devFree, cache, free_space, devChanged, printed,
                   filler_file_size, remaining_size, to_write_log, bufLen, fileLen,
                   progress, filler_path, disk, clobbered, generated, write_failed,
                   flush_lost>>
    /\ UNCHANGED devVars
    /\ UNCHANGED pushVars

\* the free space is queried again when the size is computed
FillerFileSize_requery(current_free_bytes, desired) == get_free_space - desired

\* let filler_file_size = current_free_bytes - input_bytes.as_u64();
FillerFileSize(current_free_bytes, desired) == current_free_bytes - desired

\* shared.rs: format!("./{}_filler.txt", Uuid::new_v4()) -- a token no file of the
\* directory carries (a 122-bit random value; the tokens are interchangeable, so the
\* least unused one stands for it); main.rs: "./zzz_filler.txt"
FillerPaths ==
    IF backend = "main" THEN {zzz_filler}
    ELSE {u \in Uuids \ disk : \A v \in Uuids \ disk : u <= v}

\* File::create(&filler_path)?: creates the file, or truncates the one that exists
CreateFile ==
    /\ pc = "create"
    /\ filler_file_size' = FillerFileSize(free_space, input_bytes)
    /\ trace' = trace \o <<"generate">>
    /\ \/ \E path \in FillerPaths :
            /\ filler_path' = path
            /\ disk' = disk \cup {path}
            /\ clobbered' = (path \in disk)
            /\ fileLen' = 0
            /\ bufLen' = 0
            /\ remaining_size' = filler_file_size'
            /\ pc' = "write"
            /\ UNCHANGED result
       \/ /\ Fail("FileCreateError")
          /\ UNCHANGED <<filler_path, disk, clobbered, fileLen, bufLen, remaining_size>>
    /\ UNCHANGED <<backend, run, devFree, cache, free_space, reprompted, devChanged,
                   printed, input_bytes, to_write_log, progress, generated,
                   write_failed, flush_lost>>
    /\ UNCHANGED devVars
    /\ UNCHANGED pushVars

\* the whole buffer is written whatever remains
ToWrite_whole_buffer(remaining) == BUFFER_SIZE

\* the slice handed to the writer is one byte short of the buffer
ToWrite_short(remaining) == Min(remaining, BUFFER_SIZE - 1)

\* let to_write = cmp::min(remaining_size, buffer.len());
ToWrite(remaining) == Min(remaining, BUFFER_SIZE)

\* the count is decreased by the buffer's size, not by the bytes written
RemainingAfter_buffer(remaining, to_write) == remaining - BUFFER_SIZE

\* remaining_size -= to_write;
RemainingAfter(remaining, to_write) == remaining - to_write

\* BufWriter::write of n < capacity bytes: the buffer is flushed to the file first
\* when the bytes do not fit its spare capacity, and the bytes are then buffered
BufWriterFlushes(n) == n > BufWriterCapacity - bufLen

\* bar.inc(1024);
BarInc == BUFFER_SIZE

\* one iteration of `while remaining_size > 0`: fill the slice, writer.write(buffer)
\* .unwrap(), remaining_size -= to_write, bar.inc(1024)
WriteChunk ==
    /\ pc = "write"
    /\ remaining_size > 0
    /\ LET to_write == ToWrite(remaining_size) IN
        \/ /\ IF BufWriterFlushes(to_write)
              THEN /\ fileLen' = fileLen + bufLen
                   /\ bufLen' = to_write
              ELSE /\ bufLen' = bufLen + to_write
                   /\ UNCHANGED fileLen
           /\ remaining_size' = RemainingAfter(remaining_size, to_write)
           /\ to_write_log' = Append(to_write_log, to_write)
           /\ progress' = progress + BarInc
           /\ UNCHANGED <<pc, result, write_failed>>
        \/ \* the flush is rejected (disk full): write returns Err, unwrap panics
           /\ BufWriterFlushes(to_write)
           /\ \E partial \in {0, bufLen \div 2} : fileLen' = fileLen + partial
           /\ write_failed' = TRUE
           /\ to_write_log' = Append(to_write_log, to_write)
           /\ Panic
           /\ UNCHANGED <<bufLen, remaining_size, progress>>
    /\ UNCHANGED <<backend, run, devFree, cache, free_space, reprompted, devChanged,
                   printed, input_bytes, filler_file_size, filler_path, disk, clobbered,
                   generated, flush_lost, trace>>
    /\ UNCHANGED devVars
    /\ UNCHANGED pushVars

\* the loop is left: bar.finish_and_clear(); Ok(filler_path). The BufWriter is
\* dropped, which flushes what it holds and ignores an error of that flush.
FinishFile ==
    /\ pc = "write"
    /\ remaining_size <= 0
    /\ \/ /\ fileLen' = fileLen + bufLen
          /\ UNCHANGED flush_lost
       \/ /\ \E partial \in {0, bufLen \div 2} : fileLen' = fileLen + partial
          /\ flush_lost' = TRUE
    /\ bufLen' = 0
    /\ generated' = TRUE
    /\ pc' = "metadata"
    /\ UNCHANGED <<backend, run, result, devFree, cache, free_space, reprompted,
                   devChanged, printed, input_bytes, filler_file_size, remaining_size,
                   to_write_log, progress, filler_path, disk, clobbered, write_failed,
                   trace>>
    /\ UNCHANGED devVars
    /\ UNCHANGED pushVars

\* ------------------------------------------------------ canonicalize, metadata
\* unix.rs: filler_file_path.canonicalize()?; get_metadata(..)? (file_size:
\* meta.len(), file_type: Filetype::Unknown); windows.rs: canonicalize(..)? only;
\* main.rs: get_metadata(..)? only
Metadata ==
    /\ pc = "metadata"
    /\ \/ /\ IF IsUnix
             THEN /\ meta_size' = fileLen
                  /\ file_type' = "Unknown"
             ELSE UNCHANGED <<meta_size, file_type>>
          /\ pc' = "push"
          /\ UNCHANGED result
       \/ /\ Fail("MetadataError")
          /\ UNCHANGED <<meta_size, file_type>>
    /\ UNCHANGED <<backend, run, devFree, cache, free_space, reprompted, devChanged,
                   printed, pushed, trace>>
    /\ UNCHANGED devVars
    /\ UNCHANGED genVars

\* ------------------------------------------------------- send_file_to_device
\* the push sends the computed filler size, not the length the file has
PushSize_target == filler_file_size

\* bytes the push sends: unix.rs/main.rs send metadata.file_size bytes of the file,
\* windows.rs push_file sends the file
PushSize == IF IsUnix THEN meta_size ELSE fileLen

\* a failed push is attempted again
AfterPushError_retry(kind) ==
    /\ pc' = "push"
    /\ result' = result

\* run(): what follows an Err of send_file_to_device(..)?
AfterPushError(kind) == Fail(kind)

\* send_file_to_device(): pool.by_id(..)? / content()?, object_by_id(..)?, then the
\* transfer; a failed transfer may leave a partial object on the device
Push ==
    /\ pc = "push"
    /\ trace' = trace \o <<"push_file">>
    /\ \/ \E ov \in Overheads :
            /\ PushSize + ov <= devFree
            /\ devFree' = devFree - PushSize - ov
            /\ pushed' = PushSize
            /\ pc' = "cleanup"
            /\ UNCHANGED result
       \/ /\ AfterPushError("StorageQueryError")
          /\ UNCHANGED <<devFree, pushed>>
       \/ /\ \E partial \in {0, PushSize \div 2} :
               /\ partial <= devFree
               /\ devFree' = devFree - partial
          /\ AfterPushError("TransferError")
          /\ UNCHANGED pushed
    /\ UNCHANGED <<backend, run, cache, free_space, reprompted, devChanged, printed,
                   meta_size, file_type>>
    /\ UNCHANGED devVars
    /\ UNCHANGED genVars

\* --------------------------------------------------------- delete_fillter_file
\* the file is removed whatever the answer to the prompt
delete_fillter_file_always(answer) ==
    /\ trace' = trace \o
          (IF answer \in {"yes", "yes_remove_err"}
           THEN <<"cleanup_prompt", "remove_file">> ELSE <<"cleanup_prompt">>)
    /\ IF answer = "prompt_err"
       THEN /\ Fail("UserInputError")
            /\ UNCHANGED <<disk, fileLen>>
       ELSE /\ disk' = disk \ {filler_path}
            /\ fileLen' = None
            /\ pc' = IF IsUnix THEN "refresh" ELSE "report"
            /\ UNCHANGED result

\* Confirm::new()..default(true).interact()?; if input { remove_file(path)?; }
delete_fillter_file(answer) ==
    /\ trace' = trace \o
          (IF answer \in {"yes", "yes_remove_err"}
           THEN <<"cleanup_prompt", "remove_file">> ELSE <<"cleanup_prompt">>)
    /\ CASE answer = "prompt_err" ->
              /\ Fail("UserInputError")
              /\ UNCHANGED <<disk, fileLen>>
         [] answer = "yes_remove_err" ->
              /\ Fail("CleanupError")
              /\ UNCHANGED <<disk, fileLen>>
         [] answer = "yes" ->
              /\ disk' = disk \ {filler_path}
              /\ fileLen' = None
              /\ pc' = IF IsUnix THEN "refresh" ELSE "report"
              /\ UNCHANGED result
         [] OTHER ->
              /\ pc' = IF IsUnix THEN "refresh" ELSE "report"
              /\ UNCHANGED <<result, disk, fileLen>>

Cleanup ==
    /\ pc = "cleanup"
    /\ \E answer \in {"yes", "no", "prompt_err", "yes_remove_err"} :
        delete_fillter_file(answer)
    /\ UNCHANGED <<backend, run, devFree, cache, free_space, reprompted, devChanged,
                   printed, input_bytes, filler_file_size, remaining_size, to_write_log,
                   bufLen, progress, filler_path, clobbered, generated, write_failed,
                   flush_lost>>
    /\ UNCHANGED devVars
    /\ UNCHANGED pushVars

\* ------------------------------------------------------------------- report
\* unix.rs/main.rs: device.update_storage(StorageSort::NotSorted)?
Refresh ==
    /\ pc = "refresh"
    /\ trace' = trace \o <<"refresh_storage_view">>
    /\ \/ /\ cache' = devFree
          /\ pc' = "report"
          /\ UNCHANGED result
       \/ /\ Fail("RefreshError")
          /\ UNCHANGED cache
    /\ UNCHANGED <<backend, run, devFree, free_space, reprompted, devChanged, printed>>
    /\ UNCHANGED devVars
    /\ UNCHANGED genVars
    /\ UNCHANGED pushVars

\* the figure is computed locally instead of taken from the query
ReportedFigure_local(remaining_free_space) == free_space - filler_file_size

\* the figure of println!("Successfully filled MTP storage, remaining free space
\* is: {}", remaining_free_space.display())
ReportedFigure(remaining_free_space) == remaining_free_space

\* let remaining_free_space = get_free_space(..)?; println!(..); Ok(())
Report ==
    /\ pc = "report"
    /\ \/ /\ printed' = ReportedFigure(get_free_space)
          /\ trace' = trace \o <<"free_space", "print">>
          /\ pc' = "done"
          /\ result' = "Ok"
       \/ /\ trace' = trace \o <<"free_space">>
          /\ Fail("StorageQueryError")
          /\ UNCHANGED printed
    /\ UNCHANGED <<backend, run, devFree, cache, free_space, reprompted, devChanged>>
    /\ UNCHANGED devVars
    /\ UNCHANGED genVars
    /\ UNCHANGED pushVars

\* the program is started again in the same working directory
Restart ==
    /\ pc = "done"
    /\ run < MaxRuns
    /\ \E free \in FreeValues :
        /\ backend' = backend
        /\ run' = run + 1
        /\ pc' = "select_device"
        /\ result' = "running"
        /\ devices_len' = None
        /\ pools_len' = None
        /\ devFree' = free
        /\ cache' = None
        /\ free_space' = None
        /\ reprompted' = FALSE
        /\ devChanged' = FALSE
        /\ input_bytes' = None
        /\ filler_file_size' = None
        /\ remaining_size' = None
        /\ to_write_log' = <<>>
        /\ bufLen' = 0
        /\ fileLen' = None
        /\ progress' = 0
        /\ filler_path' = None
        /\ disk' = disk
        /\ clobbered' = FALSE
        /\ generated' = FALSE
        /\ write_failed' = FALSE
        /\ flush_lost' = FALSE
        /\ meta_size' = None
        /\ file_type' = "none"
        /\ pushed' = None
        /\ printed' = None
        /\ trace' = <<>>

Next ==
    \/ SelectDevice
    \/ SelectStorage
    \/ GetFreeSpace
    \/ DeviceChange
    \/ Prompt
    \/ CreateFile
    \/ WriteChunk
    \/ FinishFile
    \/ Metadata
    \/ Push
    \/ Cleanup
    \/ Refresh
    \/ Report
    \/ Restart

Spec == Init /\ [][Next]_vars

\* ================================================================== claims
InTrace(op) == \E i \in 1..Len(trace) : trace[i] = op

\* the last n operations of the run
Last(n) == IF Len(trace) < n THEN <<>> ELSE SubSeq(trace, Len(trace) - n + 1, Len(trace))

\* the text of a byte count typed as digits
Digits(n) == [num |-> n, unit |-> ""]

\* the run ended in the push: send_file_to_device returned Err
PushFailed == pc = "done" /\ Len(trace) > 0 /\ trace[Len(trace)] = "push_file"

\* C1: in every run in which the filler file has been created and push_file then
\* fails, the deletion-confirmation prompt (Cleanup) is reached before the run
\* terminates, on every backend.
C1_CleanupAfterFailedPush ==
    (PushFailed /\ filler_path # None) => InTrace("cleanup_prompt")

\* C2: for every target size >= 1024, multiples of the chunk or not, the generation
\* loop leaves, when no write fails, a file whose length is the target size exactly,
\* the target size being current_free - desired.
C2_ExactLength ==
    (generated /\ ~write_failed /\ ~flush_lost /\ fileLen # None
        /\ filler_file_size >= BUFFER_SIZE)
        => /\ fileLen = filler_file_size
           /\ filler_file_size = free_space - input_bytes

\* a file longer than the BufWriter's capacity, no multiple of the chunk, generated
\* with its exact length
C2_Witness ==
    /\ generated
    /\ ~write_failed
    /\ ~flush_lost
    /\ fileLen = filler_file_size
    /\ filler_file_size > BufWriterCapacity
    /\ filler_file_size % BUFFER_SIZE # 0

\* C3: for every desired value the validation accepts, filler_size = current_free -
\* desired is strictly greater than 0: no underflow, no zero-length filler.
C3_PositiveFiller ==
    /\ input_bytes # None => free_space - input_bytes > 0
    /\ filler_file_size # None => filler_file_size > 0

\* the largest desired value was accepted: a filler of one byte
C3_Witness == filler_path # None /\ filler_file_size = 1

\* C4 as stated: for every current_free the validation rejects desired ==
\* current_free and accepts desired == current_free - 1.
C4_BoundaryEveryFree ==
    pc = "prompt" =>
        /\ validate(Digits(free_space), free_space) # "ok"
        /\ validate(Digits(free_space - 1), free_space) = "ok"

\* C4 amended: desired == current_free is always rejected; desired == current_free
\* - 1 is accepted exactly when it is at least 1024, that is for current_free >= 1025,
\* and no accepted desired value ever equals the free space.
C4_Boundary ==
    /\ pc = "prompt" =>
        /\ validate(Digits(free_space), free_space) # "ok"
        /\ validate(Digits(free_space - 1), free_space) = "ok"
               <=> free_space - 1 >= BUFFER_SIZE
    /\ input_bytes # None => input_bytes # free_space

\* the prompt accepted desired == current_free - 1 after rejecting another text
C4_Witness == pc = "create" /\ reprompted /\ input_bytes = free_space - 1

\* C5 as stated: no run ever creates a filler file for a target size below 1024.
C5_NoFillerBelowChunk == filler_path # None => filler_file_size >= BUFFER_SIZE

\* C5 amended: the 1024-byte minimum is tested on the desired free space, not on
\* the filler: a file is created only for an accepted desired value >= 1024, and
\* its target size is any size from 1 byte up.
C5_MinimumIsOnDesired ==
    filler_path # None => (input_bytes >= BUFFER_SIZE /\ filler_file_size >= 1)

\* a filler shorter than one chunk was generated
C5_Witness ==
    generated /\ filler_file_size < BUFFER_SIZE /\ fileLen = filler_file_size

\* C6 as stated: on the success path of every backend refresh_storage_view is
\* called, then free_space, and the figure printed is that query's value.
C6_RefreshThenQuery ==
    result = "Ok" =>
        /\ Last(3) = <<"refresh_storage_view", "free_space", "print">>
        /\ printed = devFree

\* C6 amended: on the success path the figure printed is the value of a free_space
\* query made after the push and the cleanup, never current_free - filler_size;
\* unix.rs and main.rs call refresh_storage_view right before that query,
\* windows.rs calls no refresh and reads the device's property.
C6_ReportIsLiveQuery ==
    result = "Ok" =>
        /\ printed = devFree
        /\ InTrace("push_file") /\ InTrace("cleanup_prompt")
        /\ Last(2) = <<"free_space", "print">>
        /\ IsUnix => Last(3) = <<"refresh_storage_view", "free_space", "print">>
        /\ ~IsUnix => ~InTrace("refresh_storage_view")

\* the figure printed differs from the local subtraction
C6_Witness ==
    result = "Ok" /\ pushed = filler_file_size /\ printed # free_space - filler_file_size

\* C7: when the enumeration returns an empty list the run ends with NoDeviceFound
\* and the device-selection prompt is never invoked, on every backend.
C7_NoDeviceFound ==
    (pc = "done" /\ devices_len = 0) =>
        (result = "NoDeviceFound" /\ ~InTrace("select_device_prompt"))

\* C8: a run in which a step fails ends in an error and never prints the success
\* line; the success line is printed only when every step before succeeded; a
\* failed push is reported as a failure after Cleanup.
C8_FailuresReported ==
    pc = "done" =>
        /\ (result = "Ok") <=> (printed # None)
        /\ (write_failed \/ flush_lost) => result # "Ok"
        /\ PushFailed => (result # "Ok" /\ InTrace("cleanup_prompt"))

\* C9: when a write of the filler is rejected after the file was created, the run
\* returns a FillerWriteError and goes through Cleanup before it ends.
C9_WriteErrorThenCleanup ==
    (pc = "done" /\ write_failed) =>
        (result = "FillerWriteError" /\ InTrace("cleanup_prompt"))

\* C10: the path of the filler a run creates is the path of no file that existed
\* before, of this or of another run: creating it never truncates a file.
C10_FreshPath == ~clobbered

\* C11: the local filler file is removed only in the Cleanup step and only after
\* the user answered yes to the confirmation prompt; when the user declines, the
\* file is still on disk when the run ends.
C11_RemovedOnlyOnYes ==
    /\ (filler_path # None /\ filler_path \notin disk) =>
           (InTrace("cleanup_prompt") /\ InTrace("remove_file")
            /\ result # "CleanupError")
    /\ (pc = "done" /\ filler_path # None /\ ~InTrace("remove_file")) =>
           (filler_path \in disk /\ fileLen # None)

\* the user declined and the run ended in success with the file on disk
C11_Witness ==
    /\ result = "Ok"
    /\ InTrace("cleanup_prompt")
    /\ ~InTrace("remove_file")
    /\ filler_path \in disk

\* C12: the desired free space is accepted exactly when 1024 <= desired <
\* current_free: a value >= current_free is rejected, a value < 1024 is rejected,
\* every other text that parses is accepted.
C12_AcceptedRange ==
    /\ pc = "prompt" =>
        \A input \in Inputs :
            validate(input, free_space) = "ok"
                <=> /\ ByteSize_from_str(input) # None
                    /\ ByteSize_from_str(input) >= BUFFER_SIZE
                    /\ ByteSize_from_str(input) < free_space
    /\ input_bytes # None => (input_bytes >= BUFFER_SIZE /\ input_bytes < free_space)

\* the least value of the range, typed with a unit, was accepted after a rejection
C12_Witness ==
    pc = "create" /\ reprompted /\ input_bytes = BUFFER_SIZE /\ free_space > 2 * BUFFER_SIZE

\* the place of a step in the order SelectDevice .. Report
Rank(p) ==
    CASE p = "select_device" -> 1
      [] p = "select_storage" -> 2
      [] p = "free_space" -> 3
      [] p = "prompt" -> 4
      [] p = "create" -> 5
      [] p = "write" -> 6
      [] p = "metadata" -> 7
      [] p = "push" -> 8
      [] p = "cleanup" -> 9
      [] p = "refresh" -> 10
      [] p = "report" -> 11
      [] OTHER -> 12

\* C13 as stated: a rejected (out-of-bounds or malformed) text ends the run, the
\* ComputeTarget prompt is never entered again.
C13_PromptNeverRepeated == ~reprompted

\* C13 amended: every error a step returns ends the run at once, with no retry, and
\* the states are entered in the listed order, never twice; the one exception is
\* the desired-free-space prompt, whose validator shows its message and asks again
\* on a rejected text, so that no run ends with InvalidSizeError.
C13_Sequential ==
    [][run' = run =>
          /\ Rank(pc') >= Rank(pc)
          /\ pc' = pc => pc \in {"prompt", "write"}
          /\ (pc = "prompt" /\ pc' = "prompt" /\ trace' # trace) => reprompted'
          /\ result # "running" => (pc = "done" /\ pc' = "done" /\ result' = result)
          /\ (result' # "running" /\ result = "running") => pc' = "done"
          /\ result' # "InvalidSizeError"]_vars

\* a text was rejected, the prompt was shown again and the run went on to succeed
C13_Witness == reprompted /\ result = "Ok"

\* C14: after each chunk the progress reported equals the cumulative number of
\* bytes written so far, and so never exceeds the target size.
C14_ProgressIsBytesWritten ==
    (pc = "write" /\ ~write_failed) =>
        /\ progress = filler_file_size - remaining_size
        /\ progress <= filler_file_size

\* C15: a failure in SelectDevice, SelectStorage or ComputeTarget, before a filler
\* file exists, ends the run at once: no local file has been created, push_file is
\* never called and the Cleanup prompt is not shown.
C15_EarlyFailureEndsRun ==
    ~InTrace("generate") =>
        /\ filler_path = None
        /\ fileLen = None
        /\ ~clobbered
        /\ pushed = None
        /\ ~InTrace("push_file")
        /\ ~InTrace("cleanup_prompt")
        /\ ~InTrace("remove_file")
        /\ pc = "done" => result \notin {"running", "Ok"}
        /\ pc \in {"select_device", "select_storage", "free_space", "prompt", "create",
                   "done"}

\* the free-space query of ComputeTarget failed and the run is over
C15_Witness ==
    /\ pc = "done"
    /\ result = "StorageQueryError"
    /\ Last(1) = <<"free_space">>
    /\ ~InTrace("desired_prompt")
    /\ filler_path = None

\* C16: the loop writes chunks of at most 1024 bytes; every chunk but the last is
\* 1024 bytes, the last is target_size mod 1024 when that is not 0, 1024 otherwise.
C16_ChunkSizes ==
    filler_file_size # None =>
        /\ \A i \in 1..Len(to_write_log) :
              /\ to_write_log[i] >= 1
              /\ to_write_log[i] <= BUFFER_SIZE
              /\ i < Len(to_write_log) => to_write_log[i] = BUFFER_SIZE
        /\ (pc = "write" /\ remaining_size = 0) =>
              /\ Len(to_write_log) >= 1
              /\ to_write_log[Len(to_write_log)] =
                    IF filler_file_size % BUFFER_SIZE # 0
                    THEN filler_file_size % BUFFER_SIZE
                    ELSE BUFFER_SIZE

\* several whole chunks were followed by a last chunk of 1023 bytes
C16_Witness ==
    /\ generated
    /\ Len(to_write_log) >= 3
    /\ to_write_log[Len(to_write_log)] = BUFFER_SIZE - 1

\* the facade operations and prompts of a successful run: re = the desired prompt
\* was repeated, rm = the user confirmed the deletion, refresh = the storage view
\* is refreshed before the report
RunOps(re, rm, refresh) ==
    <<"enumerate_devices", "select_device_prompt", "open_device", "list_storage_pools",
      "select_storage_prompt", "free_space">>
        \o (IF re THEN <<"desired_prompt", "desired_prompt">> ELSE <<"desired_prompt">>)
        \o <<"generate", "push_file", "cleanup_prompt">>
        \o (IF rm THEN <<"remove_file">> ELSE <<>>)
        \o (IF refresh THEN <<"refresh_storage_view">> ELSE <<>>)
        \o <<"free_space", "print">>

IsPrefix(s, t) == Len(s) <= Len(t) /\ SubSeq(t, 1, Len(s)) = s

\* C17 as stated: both backends drive the sequence free_space, generate, push_file
\* with metadata (byte length, unknown content type), Cleanup, refresh_storage_view,
\* free_space.
C17_SameOperations ==
    result = "Ok" =>
        /\ trace = RunOps(reprompted, InTrace("remove_file"), TRUE)
        /\ meta_size = pushed
        /\ file_type = "Unknown"

\* C17 amended: for the same user choices and device outcomes the backends drive
\* the same sequence of operations, step by step, but for two differences:
\* windows.rs never calls refresh_storage_view, and its push_file takes the path
\* alone, with no metadata; unix.rs and main.rs hand the push a metadata whose
\* byte length is the file's length and whose content type is unknown.
C17_SameOperationsButRefresh ==
    /\ result \in {"running", "Ok"} =>
          \E re \in BOOLEAN, rm \in BOOLEAN : IsPrefix(trace, RunOps(re, rm, IsUnix))
    /\ result = "Ok" => trace = RunOps(reprompted, InTrace("remove_file"), IsUnix)
    /\ (IsUnix /\ meta_size # None) =>
          /\ file_type = "Unknown"
          /\ fileLen # None => meta_size = fileLen
          /\ pushed # None => pushed = meta_size
    /\ ~IsUnix =>
          /\ meta_size = None /\ file_type = "none"
          /\ (pushed # None /\ fileLen # None) => pushed = fileLen

\* a successful Unix run: metadata with the file's length, refresh before the report
C17_Witness ==
    /\ result = "Ok"
    /\ backend = "unix"
    /\ meta_size = filler_file_size
    /\ pushed = meta_size
    /\ InTrace("refresh_storage_view")

\* how often an operation occurs in the run
Count(op) == Cardinality({i \in 1..Len(trace) : trace[i] = op})

\* C18: each run creates at most one local filler file and invokes push_file at
\* most once, exactly one of each on the success path; no second file or second
\* push is attempted, also after a failure.
C18_OneFileOnePush ==
    /\ [](/\ Count("generate") <= 1
          /\ Count("push_file") <= 1
          /\ InTrace("push_file") => (generated /\ filler_path # None)
          /\ result = "Ok" =>
                (Count("generate") = 1 /\ Count("push_file") = 1 /\ pushed # None))
    /\ [][(filler_path # None /\ run' = run) =>
              (filler_path' = filler_path /\ disk' \subseteq disk)]_vars

\* a run ended by a failed push: one file, one push
C18_Witness ==
    /\ PushFailed
    /\ result = "TransferError"
    /\ Count("push_file") = 1
    /\ filler_path \in disk

\* iterations the loop needs for a size
Iterations(size) == (size + BUFFER_SIZE - 1) \div BUFFER_SIZE

\* C19: for every filler size the generation loop terminates: the remaining byte
\* count decreases by the chunk size on every iteration, never goes below 0 and is
\* exactly 0 after ceil(filler_size / 1024) iterations.
C19_LoopTerminates ==
    /\ [](remaining_size # None =>
            /\ remaining_size >= 0
            /\ remaining_size <= filler_file_size
            /\ Len(to_write_log) <= Iterations(filler_file_size)
            /\ ~write_failed =>
                  /\ remaining_size + Len(to_write_log) * BUFFER_SIZE >= filler_file_size
                  /\ remaining_size > 0 =>
                        remaining_size =
                            filler_file_size - Len(to_write_log) * BUFFER_SIZE
                  /\ remaining_size = 0 <=>
                        Len(to_write_log) = Iterations(filler_file_size)
            /\ generated => remaining_size = 0)
    /\ [][(pc = "write" /\ run' = run /\ remaining_size' # remaining_size) =>
              /\ remaining_size' < remaining_size
              /\ remaining_size' = remaining_size - Min(remaining_size, BUFFER_SIZE)]_vars

\* a loop of ten iterations with a short last chunk has ended
C19_Witness ==
    /\ generated
    /\ remaining_size = 0
    /\ Len(to_write_log) = Iterations(filler_file_size)
    /\ Len(to_write_log) >= 9
    /\ filler_file_size % BUFFER_SIZE # 0

\* C20: the filler size comes from the one free-space read taken before the
\* prompt; the free space is not queried again between that read and the push, so
\* the size pushed is (free space at the read) - desired whatever the device's
\* free space became in between.
C20_SizeFromSingleRead ==
    /\ [](/\ filler_file_size # None => filler_file_size = free_space - input_bytes
          /\ \A j \in 1..Len(trace) :
                (trace[j] = "free_space"
                    /\ \E i \in 1..(j - 1) : trace[i] = "desired_prompt")
                  => \E k \in 1..(j - 1) : trace[k] = "push_file"
          /\ InTrace("desired_prompt") =>
                (free_space # None /\ \E i \in 1..Len(trace) :
                    trace[i] = "free_space" /\ trace[i + 1] = "desired_prompt")
          /\ (pushed # None /\ ~flush_lost) => pushed = free_space - input_bytes)
    /\ [][(free_space # None /\ run' = run) => free_space' = free_space]_vars

\* the device's free space changed while the prompt waited, and the size pushed is
\* still the one computed from the earlier read
C20_Witness ==
    /\ devChanged
    /\ pushed # None
    /\ pushed = free_space - input_bytes
    /\ result = "Ok"
    /\ printed # input_bytes

====
